---- MODULE Spec2Model ----
(***************************************************************************)
(* Concurrent access coordination layer of sqlite-mcp:                     *)
(*   database/connection.py          ThreadSafeDatabaseManager (pool)      *)
(*   database/multi_agent_manager.py MultiAgentDatabaseManager (flock),    *)
(*                                   ConsistencyManager (version wrapper)  *)
(* Threads run the managers' operations step by step; a step is the code   *)
(* between two points where another thread or process can interleave.      *)
(***************************************************************************)
EXTENDS Integers, Sequences, FiniteSets, TLC

\* ------------------------------------------------------------------ bounds
MaxPolls == 1        \* polls of the 100ms loop that fit in the lock timeout
MaxCalls == 2        \* API calls issued in one behaviour
MaxVer   == 2        \* largest version value a caller may expect
MaxConnections == 1  \* max_connections the pool is built with
MaxRecords == 3      \* records appended to the transaction log on its own
MaxClock == 2        \* hours the clock of the log advances

\* ------------------------------------------------------- universe of values
Threads == {"t1", "t2", "t3"}
Procs   == {"p1", "p2"}
Ids     == {1, 2}
None    == "none"
NoRow   == [ver |-> 0, data |-> 0]

\* The deployments: "XP", two processes, each with one thread on its own
\* MultiAgentDatabaseManager, sharing the database file; "MT", two threads of
\* one process on one MultiAgentDatabaseManager; "TS", the threads of one
\* process on one ThreadSafeDatabaseManager; "CT", thread t1 inside the
\* constructor of a ThreadSafeDatabaseManager, which no other thread has yet;
\* "BL", one thread on one MultiAgentDatabaseManager whose transaction log
\* file is missing, unreadable or not JSON.
\* Further deployments have a specification of their own: "CM", two threads
\* of one process that reach one MultiAgentDatabaseManager through one
\* ConsistencyManager; "TW", a ThreadSafeDatabaseManager with a wide pool;
\* "LG", the transaction log on its own.
Configs == {"XP", "MT", "TS", "CT", "BL"}

ProcOf(c, t) == IF c = "XP" /\ t = "t2" THEN "p2" ELSE "p1"

\* the threads that issue calls in deployment c
ActiveIn(c) ==
    IF c \in {"TS", "TW"} THEN Threads
    ELSE IF c = "CT" THEN {}
    ELSE IF c = "BL" THEN {"t1"}
    ELSE {"t1", "t2"}

\* ------------------------------------------------------------------ queries
\* A query text is the token list query.lower().strip().split() works on.
QSelect     == <<"select", "version", "from", "t", "where", "id=?">>
QSetData    == <<"update", "t", "set", "data=?", "where", "id=?">>
QBump       == <<"update", "t", "set", "version=version+1", "where", "id=?">>
QSetVer     == <<"update", "t", "set", "version=?", "where", "id=?">>
QSetDataVer == <<"update", "t", "set", "data=?,", "version=?", "where", "id=?">>
QInsert     == <<"insert", "into", "t", "(id,data,version)", "values", "(?,?,1)">>
QUpsert     == <<"insert", "or", "replace", "into", "t", "(id,data,version)",
                 "values", "(?,?,?)">>

VARIABLES
    cfg,        \* deployment
    pc,         \* pc[t]: position of thread t
    op,         \* op[t]: the manager operation t is running, with its
                \* statement arguments from where they run to the finally block
    api,        \* api[t]: the ConsistencyManager call around it, if any
    result,     \* result[t]: outcome of the last finished API call
    wlock,      \* wlock[p]: holder of self._write_lock
    llock,      \* llock[p]: holder of self._local_lock / self._lock
    ldepth,     \* ldepth[p]: how many times the holder entered self._lock
    pool,       \* self._connection_pool: the idle connections, oldest first
    held,       \* held[t]: the connection t has (0: none, -1: its own)
    txn,        \* txn[c]: the open transaction of pooled connection c
    lockFile,   \* lockFile[p]: what self._lock_file is bound to
    flocked,    \* flocked[p]: the open lock file description holds LOCK_EX
    polls,      \* polls[t]: iterations of the wait loop t is in
    db,         \* committed rows of table t
    txLog,      \* records of <database_path>.transactions
    calls,      \* API calls issued
    logged,     \* the records _log_transaction was called with and appended
    history,    \* what get_transaction_history returned, and for what, if it
                \* was the last call on the log
    clock,      \* time.time(), in hours
    cleaned,    \* what cleanup_old_transactions was asked and returned, if it
                \* was the last call on the log
    snap,       \* snap[t]: the records t has read from the log file and not
                \* yet written back
    cache,      \* self._consistency_cache: cache[k] is the entry under key k
    closed,     \* the pooled connections conn.close() has closed
    closeDone,  \* a close() of the manager has returned
    stmts       \* stmts[t]: statements the running manager call has executed

locks == <<wlock, llock, ldepth>>
file  == <<lockFile, flocked>>
conns == <<pool, held, txn>>
env   == <<cfg, logged, history, clock, cleaned, snap, cache, closed, closeDone>>
data  == <<db, txLog>>
vars  == <<env, calls, pc, op, api, result, polls, stmts, locks, file, conns, data>>

P(t) == ProcOf(cfg, t)

NoOp  == [name |-> None, level |-> None, query |-> <<>>, params |-> <<>>,
          vcol |-> None, vval |-> 0, ops |-> <<>>]
NoApi == [name |-> None, rid |-> 0, cur |-> 0, key |-> <<>>, old |-> None]
NoRes == [kind |-> None, val |-> 0]

Res(k, v) == [kind |-> k, val |-> v]

\* a connection outside a transaction; inside one, the rows as it sees them
\* no get_transaction_history has returned yet
NoHistory == [called |-> FALSE, limit |-> 0, len |-> 0, recs |-> <<>>]

\* no cleanup_old_transactions has returned yet
NoCleanup == [called |-> FALSE, age |-> 0, count |-> 0]

NoTxn == [open |-> FALSE, view |-> [i \in Ids |-> NoRow]]

\* no cache_key: None or the empty string, which "if cache_key:" takes alike
NoKey == <<>>

\* Cache keys are the character lists of "t:1", "u:12" and "x".
CacheKeys == {<<"t", ":", "1">>, <<"u", ":", "1", "2">>, <<"x">>}

\* no entry under a key of self._consistency_cache; in an entry, data is what
\* the query returned, hash the query_hash (the query and params it was
\* made with), fresh whether time.time() - timestamp < 60 still, and stale
\* records that the rows were read before an update that had returned when
\* they were stored
NoEntry == [present |-> FALSE, data |-> 0, hash |-> <<>>, fresh |-> FALSE,
            stale |-> FALSE]


\* ---------------------------------------------------------------- database
\* Table t(id PRIMARY KEY, data, version); a missing row is NoRow.
RowExists(d, i) == i \in Ids /\ d[i] # NoRow

\* SELECT version FROM <table> WHERE id = ?  -> the version, or 0 for no row
VersionLookup(d, i) == IF RowExists(d, i) THEN d[i].ver ELSE 0

\* One statement on a connection whose view of the table is d:
\* [ok, db, n]: whether it succeeded, the view after it, cursor.rowcount.
StmtOk(d, n)  == [ok |-> TRUE, db |-> d, n |-> n]
StmtErr(d)    == [ok |-> FALSE, db |-> d, n |-> 0]

ExecStmt(d, q, p) ==
    CASE q = QSetData /\ Len(p) = 2 ->
           IF RowExists(d, p[2])
           THEN StmtOk([d EXCEPT ![p[2]].data = p[1]], 1) ELSE StmtOk(d, 0)
      [] q = QBump /\ Len(p) = 1 ->
           IF RowExists(d, p[1])
           THEN StmtOk([d EXCEPT ![p[1]].ver = @ + 1], 1) ELSE StmtOk(d, 0)
      [] q = QSetVer /\ Len(p) = 2 ->
           IF RowExists(d, p[2])
           THEN StmtOk([d EXCEPT ![p[2]].ver = p[1]], 1) ELSE StmtOk(d, 0)
      [] q = QSetDataVer /\ Len(p) = 3 ->
           IF RowExists(d, p[3])
           THEN StmtOk([d EXCEPT ![p[3]] = [ver |-> p[2], data |-> p[1]]], 1)
           ELSE StmtOk(d, 0)
      [] q = QInsert /\ Len(p) = 2 /\ p[1] \in Ids ->
           IF RowExists(d, p[1])
           THEN StmtErr(d)          \* UNIQUE constraint failed: t.id
           ELSE StmtOk([d EXCEPT ![p[1]] = [ver |-> 1, data |-> p[2]]], 1)
      [] q = QUpsert /\ Len(p) = 3 /\ p[1] \in Ids ->
           StmtOk([d EXCEPT ![p[1]] = [ver |-> p[3], data |-> p[2]]], 1)
      [] OTHER -> StmtErr(d)        \* wrong number of bindings

\* for query, params in operations: conn.execute(query, params)
\* [ok, db]: ok is FALSE as soon as one statement raised.
RECURSIVE RunOps(_, _)
RunOps(d, ops) ==
    IF ops = <<>> THEN [ok |-> TRUE, db |-> d]
    ELSE LET r == ExecStmt(d, Head(ops).q, Head(ops).p)
         IN  IF r.ok THEN RunOps(r.db, Tail(ops)) ELSE [ok |-> FALSE, db |-> r.db]

\* _extract_table_name on the token list: the text has to start with
\* "update ", "insert into " or "delete from "
ExtractTableName(q) ==
    IF Len(q) >= 2 /\ q[1] = "update" THEN q[2]
    ELSE IF Len(q) >= 3 /\ q[1] = "insert" /\ q[2] = "into" THEN q[3]
    ELSE IF Len(q) >= 3 /\ q[1] = "delete" /\ q[2] = "from" THEN q[3]
    ELSE None

\* the id of the row a statement writes: its WHERE id=? binding, the id of
\* the VALUES list
WrittenId(q, p) == IF q \in {QInsert, QUpsert} THEN p[1] ELSE p[Len(p)]


\* ------------------------------------------------------------------ inputs
Vals      == {2}
VerVals   == 1..MaxVer
Levels    == {"read_committed", "serializable"}
Conns     == 1..MaxConnections
WideConns == 1..(MaxConnections + 2)
QueryIds  == Ids \cup {3}           \* ids a caller may look up; no row has id 3

\* What a caller may pass to execute_update(_with_optimistic_lock).
PlainUpdates ==
    {[query |-> QSetData, params |-> <<v, i>>, vcol |-> None, vval |-> 0] :
        v \in Vals, i \in Ids}
UpdateCalls ==
    PlainUpdates
    \cup {[query |-> QBump, params |-> <<i>>, vcol |-> "version", vval |-> e] :
        i \in Ids, e \in VerVals}
    \cup {[query |-> QUpsert, params |-> <<i, v, e + 1>>, vcol |-> "version",
           vval |-> e] : i \in Ids, v \in Vals, e \in VerVals}

\* What a caller may pass as the operations of a transaction.
Stmts == {[q |-> QSetData, p |-> <<v, 1>>] : v \in Vals}
         \cup {[q |-> QInsert, p |-> <<2, v>>] : v \in Vals}
TxnCalls == {<<a>> : a \in Stmts} \cup {<<a, b>> : a \in Stmts, b \in Stmts}

\* What a caller may pass to execute_many: a statement and its params_list.
ManyCalls == {<<[q |-> QInsert, p |-> <<2, v>>]>> : v \in Vals}
             \cup {<<[q |-> QSetData, p |-> <<v, 1>>], [q |-> QSetData, p |-> <<v, 3>>]>> :
                      v \in Vals}
             \cup {<<[q |-> QInsert, p |-> <<2, v>>], [q |-> QInsert, p |-> <<2, v>>]>> :
                      v \in Vals}

\* ------------------------------------------------------------ initial state
\* A constructed manager: the pool as _init_connection_pool fills it, no lock
\* held, the lock file not opened yet, the log as _init_transaction_log
\* writes it.
InitFor(dep) ==
    /\ cfg = dep
    /\ logged = <<>>
    /\ history = NoHistory
    /\ clock = 0
    /\ cleaned = NoCleanup
    /\ snap = [t \in Threads |-> <<>>]
    /\ cache = [k \in CacheKeys |-> NoEntry]
    /\ closed = {}
    /\ closeDone = FALSE
    /\ calls = 0
    /\ pc = [t \in Threads |-> IF cfg = "CT" /\ t = "t1" THEN "g_lock" ELSE "idle"]
    /\ op = [t \in Threads |-> IF cfg = "CT" /\ t = "t1"
                                THEN [NoOp EXCEPT !.name = "init"] ELSE NoOp]
    /\ api = [t \in Threads |-> NoApi]
    /\ result = [t \in Threads |-> NoRes]
    /\ polls = [t \in Threads |-> 0]
    /\ stmts = [t \in Threads |-> 0]
    /\ wlock = [p \in Procs |-> None]
    /\ llock = [p \in Procs |-> None]
    /\ ldepth = [p \in Procs |-> 0]
    /\ lockFile = [p \in Procs |-> "unset"]
    /\ flocked = [p \in Procs |-> FALSE]
    /\ pool = IF cfg = "TS" THEN [c \in Conns |-> c]
              ELSE IF cfg = "TW" THEN [c \in WideConns |-> c]
              ELSE <<>>
    /\ held = [t \in Threads |-> 0]
    /\ txn = [c \in WideConns |-> NoTxn]
    /\ db = [i \in Ids |-> [ver |-> i, data |-> 1]]
    /\ txLog = <<>>

Init == \E dep \in Configs : InitFor(dep)

IsMA == cfg \in {"XP", "MT", "BL", "CM"}

\* the callers use the manager directly, or only through a ConsistencyManager
Direct == cfg # "CM"

\* open(self._transaction_log_path, 'r+') and json.load(f) succeed
LogUsable == cfg # "BL"
IsTS == cfg \in {"TS", "TW"}

\* max_connections of the manager: deployment "TW" is a
\* ThreadSafeDatabaseManager with a pool wider than its callers are many
PoolSize == IF cfg = "TW" THEN MaxConnections + 2 ELSE MaxConnections

\* the API calls issued in one behaviour of the deployment
CallBudget == IF cfg = "TW" THEN MaxCalls + 1 ELSE MaxCalls

\* Entry of an API call: the arguments that decide the locks are fixed here,
\* the statement arguments are drawn where the statement runs.
Begin(t, name, level, a, next) ==
    /\ pc[t] = "idle"
    /\ t \in ActiveIn(cfg)
    /\ calls < CallBudget
    /\ calls' = calls + 1
    /\ op' = [op EXCEPT ![t] = [NoOp EXCEPT !.name = name, !.level = level]]
    /\ api' = [api EXCEPT ![t] = a]
    /\ result' = [result EXCEPT ![t] = NoRes]
    /\ stmts' = [stmts EXCEPT ![t] = 0]
    /\ polls' = [polls EXCEPT ![t] = 0]
    /\ pc' = [pc EXCEPT ![t] = next]
    /\ UNCHANGED <<env, locks, file, conns, data>>

\* ------------------------------------------------- MultiAgentDatabaseManager
CallQuery(t) ==
    /\ IsMA /\ Direct
    /\ \E lvl \in Levels : Begin(t, "query", lvl, NoApi, "local")

CallUpdate(t) ==
    /\ IsMA /\ Direct
    /\ Begin(t, "update", None, NoApi, "write")

CallTransaction(t) ==
    /\ IsMA /\ Direct
    /\ \E lvl \in Levels : Begin(t, "txn", lvl, NoApi, "write")

CallVersionCheck(t) ==
    /\ IsMA
    /\ Begin(t, "query", "read_committed", [NoApi EXCEPT !.name = "vcheck"], "local")

\* An execute_query_with_consistency that took the file lock at every level.
AcquireLocalLocking(t) ==
    /\ pc[t] = "local"
    /\ llock[P(t)] = None
    /\ llock' = [llock EXCEPT ![P(t)] = t]
    /\ pc' = [pc EXCEPT ![t] = "open"]
    /\ UNCHANGED <<env, calls, op, api, result, polls, stmts, wlock, ldepth, file,
                   conns, data>>

\* with self._local_lock:
AcquireLocal(t) ==
    /\ pc[t] = "local"
    /\ llock[P(t)] = None
    /\ llock' = [llock EXCEPT ![P(t)] = t]
    /\ pc' = [pc EXCEPT ![t] = IF op[t].level = "serializable" THEN "open" ELSE "conn"]
    /\ UNCHANGED <<env, calls, op, api, result, polls, stmts, wlock, ldepth, file,
                   conns, data>>

\* A manager whose write lock were not exclusive: the with statement is
\* entered whoever holds it.
AcquireWriteShared(t) ==
    /\ pc[t] = "write"
    /\ wlock' = [wlock EXCEPT ![P(t)] = t]
    /\ pc' = [pc EXCEPT ![t] = "open"]
    /\ UNCHANGED <<env, calls, op, api, result, polls, stmts, llock, ldepth, file,
                   conns, data>>

\* with self._write_lock:
AcquireWrite(t) ==
    /\ pc[t] = "write"
    /\ wlock[P(t)] = None
    /\ wlock' = [wlock EXCEPT ![P(t)] = t]
    /\ pc' = [pc EXCEPT ![t] = "open"]
    /\ UNCHANGED <<env, calls, op, api, result, polls, stmts, llock, ldepth, file,
                   conns, data>>

\* self._lock_file = open(self._lock_file_path, 'w'): the attribute is rebound
\* to a fresh open file description; the file object it was bound to loses its
\* last reference and is closed, which drops a lock held through it.
OpenLockFile(t) ==
    /\ pc[t] = "open"
    /\ lockFile' = [lockFile EXCEPT ![P(t)] = "open"]
    /\ flocked' = [flocked EXCEPT ![P(t)] = FALSE]
    /\ pc' = [pc EXCEPT ![t] = "flock"]
    /\ UNCHANGED <<env, calls, op, api, result, polls, stmts, locks, conns, data>>

\* What flock would grant were the lock requested shared (LOCK_SH).
FlockSharedGranted(p) == TRUE

\* fcntl.flock(fd, LOCK_EX | LOCK_NB) succeeds unless another open file
\* description holds the lock.
FlockGranted(p) == \A q \in Procs \ {p} : ~flocked[q]

\* fcntl.flock(self._lock_file.fileno(), ...) on whatever the attribute is
\* bound to now: "closed" raises ValueError, which _get_file_lock does not catch.
Flock(t, n) ==
    IF lockFile[P(t)] # "open"
    THEN /\ result' = [result EXCEPT ![t] = Res("ValueError", 0)]
         /\ pc' = [pc EXCEPT ![t] = "exit"]
         /\ UNCHANGED <<flocked, polls>>
    ELSE IF FlockGranted(P(t))
    THEN /\ flocked' = [flocked EXCEPT ![P(t)] = TRUE]
         /\ pc' = [pc EXCEPT ![t] = "conn"]
         /\ polls' = [polls EXCEPT ![t] = 0]
         /\ UNCHANGED result
    ELSE /\ pc' = [pc EXCEPT ![t] = "poll"]
         /\ polls' = [polls EXCEPT ![t] = n]
         /\ UNCHANGED <<flocked, result>>

\* _get_file_lock, first attempt
TryFlock(t) ==
    /\ pc[t] = "flock"
    /\ Flock(t, 0)
    /\ UNCHANGED <<env, calls, op, api, stmts, locks, lockFile, conns, data>>

\* _log_transaction: the record appended to the "transactions" list
LogRecord(t, kind, res) == [agent |-> P(t), op |-> kind]

\* A _log_transaction that let the exception of a failed append out.
LogTransactionRaising(log, rec, ok) ==
    [log |-> IF ok THEN Append(log, rec) ELSE log, raised |-> ~ok]

\* _log_transaction: the record is appended to the file, or (ok false: the
\* file cannot be opened or parsed, the record cannot be serialized) the
\* exception is caught and logged and the file is as before
LogTransaction(log, rec, ok) ==
    [log |-> IF ok THEN Append(log, rec) ELSE log, raised |-> FALSE]

\* what leaves a body in which _log_transaction raised
LogError == Res("LogError", 0)

\* while time.time() - start_time < timeout
TimedOut(t) == polls[t] >= MaxPolls

\* A wait loop that started over when its timeout is reached.
PollRetrying(t) ==
    /\ pc[t] = "poll"
    /\ IF TimedOut(t)
       THEN /\ polls' = [polls EXCEPT ![t] = 0]
            /\ UNCHANGED <<pc, result, flocked>>
       ELSE Flock(t, polls[t] + 1)
    /\ UNCHANGED <<env, calls, op, api, stmts, locks, lockFile, conns, data>>

\* A wait loop that recorded its timeout in the transaction log before
\* returning False.
PollLoggingTimeout(t) ==
    /\ pc[t] = "poll"
    /\ IF TimedOut(t)
       THEN /\ result' = [result EXCEPT ![t] = Res("LockTimeout", 0)]
            /\ pc' = [pc EXCEPT ![t] = "exit"]
            /\ txLog' = Append(txLog, LogRecord(t, op[t].name, 0))
            /\ UNCHANGED <<flocked, polls>>
       ELSE Flock(t, polls[t] + 1) /\ UNCHANGED txLog
    /\ UNCHANGED <<env, calls, op, api, stmts, locks, lockFile, conns, db>>

\* _get_file_lock, one turn of the wait loop; False once the timeout is over,
\* and the caller raises before its try block
Poll(t) ==
    /\ pc[t] = "poll"
    /\ IF TimedOut(t)
       THEN /\ result' = [result EXCEPT ![t] = Res("LockTimeout", 0)]
            /\ pc' = [pc EXCEPT ![t] = "exit"]
            /\ UNCHANGED <<flocked, polls>>
       ELSE Flock(t, polls[t] + 1)
    /\ UNCHANGED <<env, calls, op, api, stmts, locks, lockFile, conns, data>>

\* get_connection: conn = sqlite3.connect(self.db_path), a connection of the
\* calling thread's own
Connect(t) ==
    /\ pc[t] = "conn"
    /\ held' = [held EXCEPT ![t] = -1]
    /\ pc' = [pc EXCEPT ![t] = "body"]
    /\ UNCHANGED <<env, calls, op, api, result, polls, stmts, locks, file, pool, txn, data>>

\* conn.commit() publishes the connection's view, conn.rollback() (and closing
\* a connection with an open transaction) discards it.
Commit(committed, view)   == view
Rollback(committed, view) == committed

\* The version check of execute_update_with_optimistic_lock: the lookup keyed
\* by params[0] found a row and its version is not the expected one.
VersionConflict(d, c) ==
    /\ c.vcol # None
    /\ ExtractTableName(c.query) # None
    /\ VersionLookup(d, c.params[1]) # 0
    /\ VersionLookup(d, c.params[1]) # c.vval

\* if version_column and version_value is not None: ... if table_name:
LooksUpVersion(c) == c.vcol # None /\ ExtractTableName(c.query) # None

\* The statements of execute_update_with_optimistic_lock on its connection.
\* ran: how many statements were executed, the version lookup included.
OptimisticUpdate(d, c) ==
    LET k == IF LooksUpVersion(c) THEN 1 ELSE 0
    IN  IF VersionConflict(d, c)
        THEN [kind |-> "VersionConflict", db |-> Rollback(d, d), n |-> 0, ran |-> k]
        ELSE LET r == ExecStmt(d, c.query, c.params)
             IN  IF r.ok
                 THEN [kind |-> "affected", db |-> Commit(d, r.db), n |-> r.n,
                       ran |-> k + 1]
                 ELSE [kind |-> "StatementError", db |-> Rollback(d, r.db), n |-> 0,
                       ran |-> k + 1]

\* The statements of execute_transaction(_with_isolation): all of them and a
\* commit, or a rollback at the first that raises.
Transaction(d, ops) ==
    LET r == RunOps(d, ops)
    IN  IF r.ok THEN [ok |-> TRUE, db |-> Commit(d, r.db)]
        ELSE [ok |-> FALSE, db |-> Rollback(d, r.db)]

\* update and transaction always, a query at the serializable level
UsesFileLock(o) == o.name \in {"update", "txn"} \/ o.level = "serializable"

AfterBody(t) == IF UsesFileLock(op[t]) THEN "unlock" ELSE "exit"

\* execute_query_with_consistency inside get_connection: the statement, the
\* log record, and the connection closed on the way out
QueryBody(t) ==
    /\ pc[t] = "body"
    /\ op[t].name = "query"
    /\ \E i \in QueryIds :
        LET v  == VersionLookup(db, i)
            lg == LogTransaction(txLog, LogRecord(t, "query", IF v = 0 THEN 0 ELSE 1),
                                  LogUsable)
        IN  /\ api' = IF api[t].name \in {"vcheck", "read"}
                      THEN [api EXCEPT ![t].rid = i, ![t].cur = v] ELSE api
            /\ result' = [result EXCEPT ![t] = IF lg.raised THEN LogError ELSE Res("rows", v)]
            /\ txLog' = lg.log
    /\ stmts' = [stmts EXCEPT ![t] = @ + 1]
    /\ held' = [held EXCEPT ![t] = 0]
    /\ pc' = [pc EXCEPT ![t] = AfterBody(t)]
    /\ UNCHANGED <<env, calls, op, polls, locks, file, pool, txn, db>>

\* What update_with_version_check passes on: params + (new_version, record_id)
WrapperParams == {<<>>} \cup {<<v>> : v \in Vals}

WrapperCall(a, params) ==
    [query  |-> IF params = <<>> THEN QSetVer ELSE QSetDataVer,
     params |-> params \o <<a.cur + 1, a.rid>>,
     vcol   |-> "version",
     vval   |-> a.cur]

UpdateArgs(t) ==
    IF api[t].name = "vcheck"
    THEN {WrapperCall(api[t], ps) : ps \in WrapperParams}
    ELSE UpdateCalls

\* str(record_id), as a character list
Digits == <<"0", "1", "2", "3", "4", "5", "6", "7", "8", "9">>

RECURSIVE Str(_)
Str(i) == IF i < 10 THEN <<Digits[i + 1]>> ELSE Str(i \div 10) \o <<Digits[(i % 10) + 1]>>

\* s in key, for two strings
Contains(s, key) ==
    \E i \in 0..(Len(key) - Len(s)) : SubSeq(key, i + 1, i + Len(s)) = s

\* the table_name the callers of update_with_version_check pass: "t"
TableT == <<"t">>

\* An invalidation that went by the table name alone.
RelatedByTable(key, table, rid) == Contains(table, key)

\* _clear_related_cache: if table_name in key or str(record_id) in key
Related(key, table, rid) == Contains(table, key) \/ Contains(Str(rid), key)

\* Thread u is inside a read_with_cache_validation whose query has returned
\* the row that the update_with_version_check of thread t writes, and has not
\* stored it yet under its key, which the update will clear.
ReadBefore(u, t) ==
    /\ u # t
    /\ api[t].name = "vcheck"
    /\ api[u].name = "read" /\ api[u].key # NoKey
    /\ pc[u] \in {"exit", "store"}
    /\ api[u].rid = api[t].rid
    /\ Related(api[u].key, TableT, api[t].rid)

\* execute_update_with_optimistic_lock inside get_connection
UpdateBody(t) ==
    /\ pc[t] = "body"
    /\ op[t].name = "update"
    /\ \E c \in UpdateArgs(t) :
        LET r  == OptimisticUpdate(db, c)
            lg == IF r.kind = "affected"
                  THEN LogTransaction(txLog, LogRecord(t, "update", r.n), LogUsable)
                  ELSE [log |-> txLog, raised |-> FALSE]
        IN  /\ op' = [op EXCEPT ![t].query = c.query, ![t].params = c.params,
                                ![t].vcol = c.vcol, ![t].vval = c.vval]
            /\ db' = r.db
            /\ result' = [result EXCEPT ![t] = IF lg.raised THEN LogError ELSE Res(r.kind, r.n)]
            /\ txLog' = lg.log
            /\ stmts' = [stmts EXCEPT ![t] = @ + r.ran]
            /\ api' = [u \in Threads |->
                         IF r.db # db /\ ReadBefore(u, t) THEN [api[u] EXCEPT !.old = t]
                         ELSE api[u]]
    /\ held' = [held EXCEPT ![t] = 0]
    /\ pc' = [pc EXCEPT ![t] = AfterBody(t)]
    /\ UNCHANGED <<env, calls, polls, locks, file, pool, txn>>

\* execute_transaction_with_isolation inside get_connection
TransactionBody(t) ==
    /\ pc[t] = "body"
    /\ op[t].name = "txn"
    /\ \E ops \in TxnCalls :
        LET r  == Transaction(db, ops)
            lg == LogTransaction(txLog, LogRecord(t, "transaction", IF r.ok THEN 1 ELSE 0),
                                  LogUsable)
        IN  /\ op' = [op EXCEPT ![t].ops = ops]
            /\ db' = r.db
            /\ result' = [result EXCEPT ![t] = IF lg.raised THEN LogError
                                               ELSE Res("bool", IF r.ok THEN 1 ELSE 0)]
            /\ txLog' = lg.log
            /\ stmts' = [stmts EXCEPT ![t] = @ + Len(ops)]
    /\ held' = [held EXCEPT ![t] = 0]
    /\ pc' = [pc EXCEPT ![t] = AfterBody(t)]
    /\ UNCHANGED <<env, calls, api, polls, locks, file, pool, txn>>

\* _release_file_lock in the finally block: unlock and close whatever
\* self._lock_file is bound to; on a closed file the ValueError is logged.
ReleaseFileLock(t) ==
    /\ pc[t] = "unlock"
    /\ IF lockFile[P(t)] = "open"
       THEN /\ flocked' = [flocked EXCEPT ![P(t)] = FALSE]
            /\ lockFile' = [lockFile EXCEPT ![P(t)] = "closed"]
       ELSE UNCHANGED <<flocked, lockFile>>
    /\ pc' = [pc EXCEPT ![t] = "exit"]
    /\ op' = [op EXCEPT ![t] = [NoOp EXCEPT !.name = op[t].name, !.level = op[t].level]]
    /\ UNCHANGED <<env, calls, api, result, polls, stmts, locks, conns, data>>

\* ConsistencyManager.update_with_version_check around the two manager calls:
\* what it does with the outcome r of the call that just ended.
WrapperReadFailed(r) == r.kind # "rows" \/ r.val = 0
WrapperResult(r) == Res("bool", IF r.kind = "affected" /\ r.val > 0 THEN 1 ELSE 0)

\* A cache check that took every entry it found for valid.
ValidateCacheAlways(e) == TRUE

\* _validate_cache: cache_age < 60
ValidateCache(e) == e.fresh

\* hashlib.md5(f"{query}{params}") of a lookup of the row with id i: the
\* digest is kept as the text it is made of
QueryHash(i) == <<QSelect, <<i>>>>

\* read_with_cache_validation of the row with id i, with a key under which a
\* valid entry is held: the cached data is returned.
ReadCached(t) ==
    /\ cfg = "CM"
    /\ pc[t] = "idle"
    /\ t \in ActiveIn(cfg)
    /\ \E k \in CacheKeys, i \in QueryIds :
        /\ cache[k].present /\ ValidateCache(cache[k])
        /\ result' = [result EXCEPT ![t] = Res("rows", cache[k].data)]
        /\ api' = [api EXCEPT ![t] =
                      [NoApi EXCEPT !.name = "hit", !.key = k, !.rid = i,
                                    !.old = IF cache[k].stale THEN "stale" ELSE None]]
    /\ UNCHANGED <<env, calls, pc, op, polls, stmts, locks, file, conns, data>>

\* read_with_cache_validation without a key, or with a key under which no
\* valid entry is held: execute_query_with_consistency(query, params,
\* "read_committed")
CallReadThrough(t) ==
    /\ cfg = "CM"
    /\ \E k \in CacheKeys \cup {NoKey} :
        /\ IF k = NoKey THEN TRUE
           ELSE ~(cache[k].present /\ ValidateCache(cache[k]))
        /\ Begin(t, "query", "read_committed",
                 [NoApi EXCEPT !.name = "read", !.key = k], "local")

\* the query of a read_with_cache_validation returned and a key was given
StoresResult(a, r) == a.name = "read" /\ a.key # NoKey /\ r.kind = "rows"

\* the update of update_with_version_check returned its affected rows
ClearsCache(a, r) == a.name = "vcheck" /\ r.kind = "affected"

\* _clear_related_cache(table_name, record_id)
ClearRelatedCache(c, table, rid) ==
    [k \in CacheKeys |-> IF Related(k, table, rid) THEN NoEntry ELSE c[k]]

\* The with block of the in-process lock is left, the manager call returns
\* or raises; update_with_version_check goes on with its update or returns.
Exit(t) ==
    /\ pc[t] = "exit"
    /\ IF op[t].name = "query"
       THEN llock' = [llock EXCEPT ![P(t)] = None] /\ UNCHANGED <<wlock, ldepth>>
       ELSE wlock' = [wlock EXCEPT ![P(t)] = None] /\ UNCHANGED <<llock, ldepth>>
    /\ IF api[t].name = "vcheck" /\ op[t].name = "query" /\ ~WrapperReadFailed(result[t])
       THEN /\ op' = [op EXCEPT ![t] = [NoOp EXCEPT !.name = "update"]]
            /\ pc' = [pc EXCEPT ![t] = "write"]
            /\ result' = [result EXCEPT ![t] = NoRes]
            /\ UNCHANGED <<api, cache>>
       ELSE IF StoresResult(api[t], result[t])
       THEN /\ op' = [op EXCEPT ![t] = NoOp]
            /\ pc' = [pc EXCEPT ![t] = "store"]
            /\ UNCHANGED <<api, result, cache>>
       ELSE /\ op' = [op EXCEPT ![t] = NoOp]
            /\ pc' = [pc EXCEPT ![t] = "idle"]
            /\ cache' = IF ClearsCache(api[t], result[t])
                        THEN ClearRelatedCache(cache, TableT, api[t].rid) ELSE cache
            /\ api' = [u \in Threads |->
                         IF u = t THEN NoApi
                         ELSE IF ClearsCache(api[t], result[t]) /\ api[u].old = t
                         THEN [api[u] EXCEPT !.old = "stale"]
                         ELSE api[u]]
            /\ result' = [result EXCEPT ![t] =
                  IF api[t].name = "vcheck" THEN WrapperResult(result[t]) ELSE result[t]]
    /\ stmts' = [stmts EXCEPT ![t] = 0]
    /\ polls' = [polls EXCEPT ![t] = 0]
    /\ UNCHANGED <<cfg, logged, history, clock, cleaned, snap, calls, file, conns, data, closed, closeDone>>

\* read_with_cache_validation after its query: if cache_key: the result is
\* stored under the key with the time of the store.
CacheStore(t) ==
    /\ pc[t] = "store"
    /\ cache' = [cache EXCEPT ![api[t].key] =
                    [present |-> TRUE, data |-> result[t].val, hash |-> QueryHash(api[t].rid),
                     fresh |-> TRUE, stale |-> api[t].old = "stale"]]
    /\ api' = [api EXCEPT ![t] = [NoApi EXCEPT !.name = "stored", !.key = api[t].key]]
    /\ pc' = [pc EXCEPT ![t] = "idle"]
    /\ UNCHANGED <<cfg, logged, history, clock, cleaned, snap, calls, op, result, polls,
                   stmts, locks, file, conns, data, closed, closeDone>>

\* Sixty seconds have passed since the entry under k was stored.
CacheAges(k) ==
    /\ cfg = "CM"
    /\ cache[k].present /\ cache[k].fresh
    /\ cache' = [cache EXCEPT ![k].fresh = FALSE]
    /\ UNCHANGED <<cfg, logged, history, clock, cleaned, snap, calls, pc, op, api, result,
                   polls, stmts, locks, file, conns, data, closed, closeDone>>

\* ------------------------------------------------- ThreadSafeDatabaseManager
\* The pooled connections are made by the thread that constructs the manager,
\* with sqlite3's default check_same_thread: every method of a connection
\* raises ProgrammingError in any other thread.
SameThread(t) == t = "t1"

CallExecuteQuery(t) ==
    /\ IsTS
    /\ Begin(t, "query", None, NoApi, "ts_read")

CallExecuteUpdate(t) ==
    /\ IsTS
    /\ Begin(t, "update", None, NoApi, "ts_write")

CallExecuteMany(t) ==
    /\ IsTS
    /\ Begin(t, "many", None, NoApi, "ts_write")

CallExecuteTransaction(t) ==
    /\ IsTS
    /\ Begin(t, "txn", None, NoApi, "ts_write")

\* a caller's own "with manager.get_connection() as conn:" block
CallGetConnection(t) ==
    /\ IsTS
    /\ Begin(t, "conn", None, NoApi, "g_lock")

\* A reentrant lock that were a plain one: entering it again blocks.
EnterLockPlain(t, next) ==
    /\ llock[P(t)] = None
    /\ llock' = [llock EXCEPT ![P(t)] = t]
    /\ ldepth' = [ldepth EXCEPT ![P(t)] = @ + 1]
    /\ pc' = [pc EXCEPT ![t] = next]
    /\ UNCHANGED <<env, calls, op, api, result, polls, stmts, wlock, file, conns, data>>

\* with self._lock: (reentrant) in execute_query and in get_connection
EnterRLock(t, next) ==
    /\ llock[P(t)] \in {None, t}
    /\ llock' = [llock EXCEPT ![P(t)] = t]
    /\ ldepth' = [ldepth EXCEPT ![P(t)] = @ + 1]
    /\ pc' = [pc EXCEPT ![t] = next]
    /\ UNCHANGED <<env, calls, op, api, result, polls, stmts, wlock, file, conns, data>>

AcquireReadLock(t) ==
    /\ pc[t] = "ts_read"
    /\ EnterRLock(t, "g_lock")

AcquirePoolLock(t) ==
    /\ pc[t] = "g_lock"
    /\ EnterRLock(t, "get")

\* Writers that did not exclude one another: the with statement is entered
\* whoever holds the write lock.
AcquireWriteLockShared(t) ==
    /\ pc[t] = "ts_write"
    /\ wlock' = [wlock EXCEPT ![P(t)] = t]
    /\ pc' = [pc EXCEPT ![t] = "g_lock"]
    /\ UNCHANGED <<env, calls, op, api, result, polls, stmts, llock, ldepth, file,
                   conns, data>>

\* with self._write_lock: in execute_update, execute_many, execute_transaction
AcquireWriteLock(t) ==
    /\ pc[t] = "ts_write"
    /\ wlock[P(t)] = None
    /\ wlock' = [wlock EXCEPT ![P(t)] = t]
    /\ pc' = [pc EXCEPT ![t] = "g_lock"]
    /\ UNCHANGED <<env, calls, op, api, result, polls, stmts, llock, ldepth, file,
                   conns, data>>

\* leaving one "with self._lock:"
LeaveRLock(p) ==
    /\ ldepth' = [ldepth EXCEPT ![p] = @ - 1]
    /\ llock' = [llock EXCEPT ![p] = IF ldepth[p] = 1 THEN None ELSE @]

\* A pool that handed out its oldest connection and kept it idle as well.
PoolPeek(q) == [conn |-> Head(q), pool |-> q]

\* _get_connection_from_pool: self._connection_pool.get(timeout=5) hands out
\* the oldest idle connection
PoolGet(q) == [conn |-> Head(q), pool |-> Tail(q)]

\* A get_connection that opened a connection of its own when the pool is
\* empty, as DatabaseManager.get_connection does for every call.
TakeOrCreateConnection(t) ==
    /\ pc[t] = "get"
    /\ IF pool # <<>>
       THEN /\ held' = [held EXCEPT ![t] = PoolGet(pool).conn]
            /\ pool' = PoolGet(pool).pool
       ELSE /\ held' = [held EXCEPT ![t] = MaxConnections + 1]
            /\ pool' = pool
    /\ LeaveRLock(P(t))
    /\ pc' = [pc EXCEPT ![t] = "ts_body"]
    /\ UNCHANGED <<env, calls, op, api, result, polls, stmts, wlock, file, txn, data>>

\* get_connection: conn = self._get_connection_from_pool() under self._lock
TakeConnection(t) ==
    /\ pc[t] = "get"
    /\ pool # <<>>
    /\ held' = [held EXCEPT ![t] = PoolGet(pool).conn]
    /\ pool' = PoolGet(pool).pool
    /\ LeaveRLock(P(t))
    /\ pc' = [pc EXCEPT ![t] = "ts_body"]
    /\ UNCHANGED <<env, calls, op, api, result, polls, stmts, wlock, file, txn, data>>

\* An acquire that, the pool having stayed empty, opens one more connection
\* and goes on with it instead of failing.
PoolTimeoutCreating(t) ==
    /\ pc[t] = "get"
    /\ pool = <<>>
    /\ held' = [held EXCEPT ![t] = MaxConnections + 1]
    /\ LeaveRLock(P(t))
    /\ pc' = [pc EXCEPT ![t] = "ts_body"]
    /\ UNCHANGED <<env, calls, op, api, result, polls, stmts, wlock, file, pool, txn, data>>

\* the pool stayed empty for the 5 seconds: queue.Empty, then
\* the "pool exhausted" Exception out of get_connection
PoolTimeout(t) ==
    /\ pc[t] = "get"
    /\ pool = <<>>
    /\ result' = [result EXCEPT ![t] = Res("PoolExhausted", 0)]
    /\ LeaveRLock(P(t))
    /\ pc' = [pc EXCEPT ![t] = "ts_exit"]
    /\ UNCHANGED <<env, calls, op, api, polls, stmts, wlock, file, conns, data>>

\* The block under get_connection ends: result r, the table as d.
EndBlock(t, r, d, n) ==
    /\ result' = [result EXCEPT ![t] = r]
    /\ db' = d
    /\ stmts' = [stmts EXCEPT ![t] = @ + n]
    /\ pc' = [pc EXCEPT ![t] = "ts_ret"]
    /\ UNCHANGED <<env, calls, api, polls, locks, file, pool, held, txLog>>

ThreadError == Res("ProgrammingError", 0)

\* the table as t's connection sees it: its own uncommitted changes included
View(t) ==
    IF held[t] \in DOMAIN txn /\ txn[held[t]].open THEN txn[held[t]].view ELSE db

\* conn.commit() or conn.rollback() on connection c
EndTxn(c) == [x \in DOMAIN txn |-> IF x = c THEN NoTxn ELSE txn[x]]

\* execute_query: conn.execute(query, params); fetchall()
ExecuteQueryBody(t) ==
    /\ pc[t] = "ts_body"
    /\ op[t].name = "query"
    /\ \E i \in Ids :
        /\ op' = op
        /\ txn' = txn
        /\ IF SameThread(t)
           THEN EndBlock(t, Res("rows", VersionLookup(View(t), i)), db, 1)
           ELSE EndBlock(t, ThreadError, db, 0)

\* execute_update: conn.execute(query, params); conn.commit(); an exception
\* leaves through get_connection, which rolls back
ExecuteUpdateBody(t) ==
    /\ pc[t] = "ts_body"
    /\ op[t].name = "update"
    /\ \E c \in PlainUpdates :
        LET r == ExecStmt(View(t), c.query, c.params)
        IN  /\ op' = [op EXCEPT ![t].query = c.query, ![t].params = c.params]
            /\ txn' = IF SameThread(t) THEN EndTxn(held[t]) ELSE txn
            /\ IF ~SameThread(t) THEN EndBlock(t, ThreadError, db, 0)
               ELSE IF r.ok THEN EndBlock(t, Res("affected", r.n), Commit(db, r.db), 1)
               ELSE EndBlock(t, Res("StatementError", 0), Rollback(db, r.db), 1)

\* execute_many: conn.executemany(query, params_list); conn.commit()
ExecuteManyBody(t) ==
    /\ pc[t] = "ts_body"
    /\ op[t].name = "many"
    /\ \E ops \in ManyCalls :
        LET r == RunOps(View(t), ops)
        IN  /\ op' = [op EXCEPT ![t].ops = ops]
            /\ txn' = IF SameThread(t) THEN EndTxn(held[t]) ELSE txn
            /\ IF ~SameThread(t) THEN EndBlock(t, ThreadError, db, 0)
               ELSE IF r.ok THEN EndBlock(t, Res("affected", Len(ops)), Commit(db, r.db), Len(ops))
               ELSE EndBlock(t, Res("StatementError", 0), Rollback(db, r.db), Len(ops))

\* execute_transaction: in another thread than the connection's, the first
\* conn.execute raises and so does the conn.rollback() of the except block
ExecuteTransactionBody(t) ==
    /\ pc[t] = "ts_body"
    /\ op[t].name = "txn"
    /\ \E ops \in TxnCalls :
        LET r == Transaction(View(t), ops)
        IN  /\ op' = [op EXCEPT ![t].ops = ops]
            /\ txn' = IF SameThread(t) THEN EndTxn(held[t]) ELSE txn
            /\ IF ~SameThread(t) THEN EndBlock(t, ThreadError, db, 0)
               ELSE EndBlock(t, Res("bool", IF r.ok THEN 1 ELSE 0), r.db, Len(ops))

\* the end of a caller's own block
UserBlockEnd(t) ==
    /\ pc[t] = "ts_body"
    /\ op[t].name \in {"conn", "init"}
    /\ op' = op
    /\ txn' = txn
    /\ EndBlock(t, Res("done", 0), db, 0)

\* a statement of the caller's own block, not committed: sqlite3 begins a
\* transaction before the first insert or update and leaves it open; a
\* statement that fails leaves the block through get_connection's except
\* clause, which rolls back
UserStatement(t) ==
    /\ pc[t] = "ts_body"
    /\ op[t].name = "conn"
    /\ SameThread(t)
    /\ stmts[t] = 0
    /\ \E c \in PlainUpdates :
        LET r == ExecStmt(View(t), c.query, c.params)
        IN  /\ op' = op
            /\ IF r.ok
               THEN /\ txn' = [txn EXCEPT ![held[t]] = [open |-> TRUE, view |-> r.db]]
                    /\ stmts' = [stmts EXCEPT ![t] = 1]
                    /\ UNCHANGED <<env, calls, api, result, pc, polls, locks, file,
                                   pool, held, data>>
               ELSE /\ txn' = EndTxn(held[t])
                    /\ EndBlock(t, Res("StatementError", 0), db, 1)

\* self._connection_pool.put(conn, timeout=1): room is never missing here;
\* were it, the connection would be closed instead
PoolPut(q, c) == IF Len(q) < PoolSize THEN Append(q, c) ELSE q

\* A release that put the connection back as the caller left it.
ReturnConnectionKeeping(t) ==
    /\ pc[t] = "ts_ret"
    /\ pool' = IF SameThread(t) THEN PoolPut(pool, held[t]) ELSE pool
    /\ held' = [held EXCEPT ![t] = 0]
    /\ txn' = txn
    /\ pc' = [pc EXCEPT ![t] = "ts_exit"]
    /\ op' = [op EXCEPT ![t] = [NoOp EXCEPT !.name = op[t].name]]
    /\ UNCHANGED <<env, calls, api, result, polls, stmts, locks, file, data>>

\* _return_connection_to_pool in get_connection's finally: rollback and put;
\* in another thread than the connection's, rollback and close both raise and
\* the connection is neither put back nor closed
ReturnConnection(t) ==
    /\ pc[t] = "ts_ret"
    /\ pool' = IF SameThread(t) THEN PoolPut(pool, held[t]) ELSE pool
    /\ held' = [held EXCEPT ![t] = 0]
    /\ txn' = IF SameThread(t) THEN EndTxn(held[t]) ELSE txn
    /\ pc' = [pc EXCEPT ![t] = "ts_exit"]
    /\ op' = [op EXCEPT ![t] = [NoOp EXCEPT !.name = op[t].name]]
    /\ UNCHANGED <<env, calls, api, result, polls, stmts, locks, file, data>>

\* the with block of self._lock or self._write_lock is left, the call returns
\* or raises
Return(t) ==
    /\ pc[t] = "ts_exit"
    /\ op[t].name # "init"
    /\ IF op[t].name = "query" THEN LeaveRLock(P(t)) /\ UNCHANGED wlock
       ELSE IF op[t].name = "conn" THEN UNCHANGED locks
       ELSE wlock' = [wlock EXCEPT ![P(t)] = None] /\ UNCHANGED <<llock, ldepth>>
    /\ op' = [op EXCEPT ![t] = NoOp]
    /\ pc' = [pc EXCEPT ![t] = "idle"]
    /\ stmts' = [stmts EXCEPT ![t] = 0]
    /\ UNCHANGED <<env, calls, api, result, polls, file, conns, data>>

\* __init__ after the get_connection of _init_database: its Exception leaves
\* _init_database (logged and raised again) and __init__; otherwise
\* _init_connection_pool puts max_connections connections into the pool and
\* the manager is handed to the threads
ConstructorEnd(t) ==
    /\ pc[t] = "ts_exit"
    /\ op[t].name = "init"
    /\ IF result[t].kind = "PoolExhausted"
       THEN UNCHANGED <<cfg, result, pool>>
       ELSE /\ cfg' = "TS"
            /\ result' = [result EXCEPT ![t] = Res("constructed", 0)]
            /\ pool' = [c \in Conns |-> c]
    /\ op' = [op EXCEPT ![t] = NoOp]
    /\ pc' = [pc EXCEPT ![t] = "idle"]
    /\ UNCHANGED <<calls, api, polls, stmts, locks, file, held, txn, data, logged, history,
                   clock, cleaned, snap, cache, closed, closeDone>>

\* ---------------------------------------------------------------- behaviours
\* one step of thread t
Step(t) ==
        \/ CallQuery(t)
        \/ CallUpdate(t)
        \/ CallTransaction(t)
        \/ CallVersionCheck(t)
        \/ AcquireLocal(t)
        \/ AcquireWrite(t)
        \/ OpenLockFile(t)
        \/ TryFlock(t)
        \/ Poll(t)
        \/ Connect(t)
        \/ QueryBody(t)
        \/ UpdateBody(t)
        \/ TransactionBody(t)
        \/ ReleaseFileLock(t)
        \/ Exit(t)
        \/ CallExecuteQuery(t)
        \/ CallExecuteUpdate(t)
        \/ CallExecuteMany(t)
        \/ CallExecuteTransaction(t)
        \/ CallGetConnection(t)
        \/ AcquireReadLock(t)
        \/ AcquirePoolLock(t)
        \/ AcquireWriteLock(t)
        \/ TakeConnection(t)
        \/ PoolTimeout(t)
        \/ ExecuteQueryBody(t)
        \/ ExecuteUpdateBody(t)
        \/ ExecuteManyBody(t)
        \/ ExecuteTransactionBody(t)
        \/ UserBlockEnd(t)
        \/ UserStatement(t)
        \/ ReturnConnection(t)
        \/ Return(t)
        \/ ConstructorEnd(t)

Next == \E t \in Threads : Step(t)

Spec == Init /\ [][Next]_vars

\* The same behaviours where thread t2 is always scheduled again, whatever
\* the other threads do (they may stall for as long as they like).
SpecWaiter == Spec /\ WF_vars(Step("t2"))

\* Two threads of one process whose calls all go through one
\* ConsistencyManager: read_with_cache_validation and
\* update_with_version_check, and the manager calls these make.
StepCache(t) ==
        \/ CallVersionCheck(t)
        \/ ReadCached(t)
        \/ CallReadThrough(t)
        \/ CacheStore(t)
        \/ AcquireLocal(t)
        \/ AcquireWrite(t)
        \/ OpenLockFile(t)
        \/ TryFlock(t)
        \/ Connect(t)
        \/ QueryBody(t)
        \/ UpdateBody(t)
        \/ ReleaseFileLock(t)
        \/ Exit(t)

NextCache ==
    \/ \E t \in Threads : StepCache(t)
    \/ \E k \in CacheKeys : CacheAges(k)

SpecCache == InitFor("CM") /\ [][NextCache]_vars

\* A ThreadSafeDatabaseManager with a wide pool whose callers use only
\* execute_query, execute_update, execute_many and execute_transaction.
StepPool(t) ==
        \/ CallExecuteQuery(t)
        \/ CallExecuteUpdate(t)
        \/ CallExecuteMany(t)
        \/ CallExecuteTransaction(t)
        \/ AcquireReadLock(t)
        \/ AcquirePoolLock(t)
        \/ AcquireWriteLock(t)
        \/ TakeConnection(t)
        \/ ExecuteQueryBody(t)
        \/ ExecuteUpdateBody(t)
        \/ ExecuteManyBody(t)
        \/ ExecuteTransactionBody(t)
        \/ ReturnConnection(t)
        \/ Return(t)

NextPool == \E t \in Threads : StepPool(t)

SpecPool == InitFor("TW") /\ [][NextPool]_vars

\* ------------------------------------------------------- the pool is closed
\* close() is called by an idle thread, or by a caller inside its own
\* "with manager.get_connection() as conn:" block.
CallClose(t) ==
    /\ IsTS
    /\ t \in ActiveIn(cfg)
    /\ calls < CallBudget
    /\ \/ pc[t] = "idle" /\ pc' = [pc EXCEPT ![t] = "close"]
       \/ /\ pc[t] = "ts_body"
          /\ op[t].name = "conn"
          /\ pc' = [pc EXCEPT ![t] = "close_in"]
    /\ calls' = calls + 1
    /\ result' = [result EXCEPT ![t] = NoRes]
    /\ UNCHANGED <<env, op, api, polls, stmts, locks, file, conns, data>>

\* where close() was called from
AfterClose(t) == IF pc[t] = "close" THEN "idle" ELSE "ts_body"

\* close: conn = self._connection_pool.get_nowait(); conn.close(). In another
\* thread than the connection's, conn.close() raises ProgrammingError, which
\* close() does not catch: the connection is out of the pool and open.
CloseConnection(t) ==
    /\ pc[t] \in {"close", "close_in"}
    /\ pool # <<>>
    /\ pool' = PoolGet(pool).pool
    /\ IF SameThread(t)
       THEN /\ closed' = closed \cup {PoolGet(pool).conn}
            /\ txn' = EndTxn(PoolGet(pool).conn)
            /\ UNCHANGED <<pc, result>>
       ELSE /\ result' = [result EXCEPT ![t] = ThreadError]
            /\ pc' = [pc EXCEPT ![t] = AfterClose(t)]
            /\ UNCHANGED <<closed, txn>>
    /\ UNCHANGED <<cfg, logged, history, clock, cleaned, snap, cache, closeDone,
                   calls, op, api, polls, stmts, locks, file, held, data>>

\* close: self._connection_pool.empty() is true and close() returns
CloseReturn(t) ==
    /\ pc[t] \in {"close", "close_in"}
    /\ pool = <<>>
    /\ result' = [result EXCEPT ![t] = Res("closed", 0)]
    /\ closeDone' = TRUE
    /\ pc' = [pc EXCEPT ![t] = AfterClose(t)]
    /\ UNCHANGED <<cfg, logged, history, clock, cleaned, snap, cache, closed,
                   calls, op, api, polls, stmts, locks, file, conns, data>>

\* A ThreadSafeDatabaseManager whose callers read, hold connections of their
\* own and close the manager.
StepClose(t) ==
        \/ CallExecuteQuery(t)
        \/ CallGetConnection(t)
        \/ CallClose(t)
        \/ AcquireReadLock(t)
        \/ AcquirePoolLock(t)
        \/ TakeConnection(t)
        \/ PoolTimeout(t)
        \/ ExecuteQueryBody(t)
        \/ UserBlockEnd(t)
        \/ UserStatement(t)
        \/ CloseConnection(t)
        \/ CloseReturn(t)
        \/ ReturnConnection(t)
        \/ Return(t)

NextClose == \E t \in Threads : StepClose(t)

SpecClose == InitFor("TS") /\ [][NextClose]_vars

\* ------------------------------------------------ the transaction log alone
\* One manager logs and reads the history, nothing else runs. Here the
\* records carry their parameters, as the Python values the callers pass.
PyTuple(items) == [tag |-> "tuple", items |-> items]
PyList(items)  == [tag |-> "list", items |-> items]

\* the transaction dicts _log_transaction builds: params is a tuple
LogInputs ==
    {[operation |-> "query", params |-> PyTuple(<<>>), result |-> 1],
     [operation |-> "update", params |-> PyTuple(<<1>>), result |-> 1]}

\* transaction = {"timestamp": time.time(), ...}
Stamp(rec, ts) ==
    [operation |-> rec.operation, params |-> rec.params, result |-> rec.result,
     timestamp |-> ts]

\* json.dump of a record: a tuple and a list are both written as an array,
\* the other fields as they are
JsonDump(rec) == [rec EXCEPT !.params = rec.params.items]

\* json.load of a record: an array is read as a list
JsonLoad(obj) == [obj EXCEPT !.params = PyList(obj.params)]

\* data = json.load(f)["transactions"]
Loaded(f) == [i \in 1..Len(f) |-> JsonLoad(f[i])]

\* _log_transaction: load, append the record, dump everything again
LogFileAfter(f, rec) ==
    [i \in 1..(Len(f) + 1) |-> JsonDump(Append(Loaded(f), rec)[i])]

\* The first n elements of s.
FirstN(s, n) == SubSeq(s, 1, IF Len(s) > n THEN n ELSE Len(s))

\* s[-n:] for n > 0
LastN(s, n) == SubSeq(s, IF Len(s) > n THEN Len(s) - n + 1 ELSE 1, Len(s))

\* transactions[-limit:] if limit > 0 else transactions
HistoryWindow(tx, limit) == IF limit > 0 THEN LastN(tx, limit) ELSE tx

LogTransactionCall ==
    /\ Len(logged) < MaxRecords
    /\ \E rec \in LogInputs :
        /\ txLog' = LogFileAfter(txLog, Stamp(rec, clock))
        /\ logged' = Append(logged, Stamp(rec, clock))
    /\ history' = NoHistory
    /\ cleaned' = NoCleanup
    /\ UNCHANGED <<cfg, cache, clock, snap, calls, pc, op, api, result, polls,
                   stmts, locks, file, conns, db, closed, closeDone>>

GetTransactionHistory ==
    /\ \E limit \in 0..(MaxRecords + 1) :
        history' = [called |-> TRUE, limit |-> limit, len |-> Len(txLog),
                    recs |-> HistoryWindow(Loaded(txLog), limit)]
    /\ cleaned' = NoCleanup
    /\ UNCHANGED <<cfg, cache, logged, clock, snap, calls, pc, op, api, result, polls,
                   stmts, locks, file, conns, data, closed, closeDone>>

\* A record is kept when it is as old as the cutoff, too.
NotOlder(ts, cutoff) == ts >= cutoff

\* tx.get("timestamp", 0) > cutoff_time
Newer(ts, cutoff) == ts > cutoff

\* the list comprehension of cleanup_old_transactions
KeptRecords(txs, cutoff) ==
    LET Keep(tx) == Newer(tx.timestamp, cutoff) IN SelectSeq(txs, Keep)

\* cleanup_old_transactions(max_age_hours): load, filter, dump, count
CleanupOldTransactions ==
    /\ \E age \in 0..MaxClock :
        LET kept == KeptRecords(Loaded(txLog), clock - age)
        IN  /\ txLog' = [i \in 1..Len(kept) |-> JsonDump(kept[i])]
            /\ cleaned' = [called |-> TRUE, age |-> age,
                           count |-> Len(txLog) - Len(kept)]
    /\ history' = NoHistory
    /\ UNCHANGED <<cfg, cache, logged, clock, snap, calls, pc, op, api, result, polls,
                   stmts, locks, file, conns, db, closed, closeDone>>

\* an hour passes
Tick ==
    /\ clock < MaxClock
    /\ clock' = clock + 1
    /\ UNCHANGED <<cfg, cache, logged, history, cleaned, snap, calls, pc, op, api, result, polls,
                   stmts, locks, file, conns, data, closed, closeDone>>

NextLog ==
    \/ LogTransactionCall
    \/ GetTransactionHistory
    \/ CleanupOldTransactions
    \/ Tick

SpecLog == InitFor("LG") /\ [][NextLog]_vars

\* ------------------------------------------- the transaction log, shared
\* Two threads (of one process or of two: the log file is all they share)
\* use the log at once. _log_transaction and cleanup_old_transactions take no
\* lock of their own; each reads the file and later writes it whole.
Loggers == {"t1", "t2"}

\* what t logs: t1 for its queries, t2 for its updates
LogInput(t) ==
    IF t = "t1"
    THEN [operation |-> "query", params |-> PyTuple(<<>>), result |-> 1]
    ELSE [operation |-> "update", params |-> PyTuple(<<1>>), result |-> 1]

\* a max_age_hours longer than the life of the log: nothing is old enough
LongAge == MaxClock + 1

\* _log_transaction: with open(path, 'r+') as f: data = json.load(f)
LogRead(t) ==
    /\ pc[t] = "idle"
    /\ Len(logged) + Cardinality({u \in Loggers : pc[u] = "logw"}) < MaxRecords
    /\ snap' = [snap EXCEPT ![t] = Loaded(txLog)]
    /\ pc' = [pc EXCEPT ![t] = "logw"]
    /\ UNCHANGED <<cfg, cache, logged, history, clock, cleaned, calls, op, api, result,
                   polls, stmts, locks, file, conns, data, closed, closeDone>>

\* _log_transaction: data["transactions"].append(transaction); f.seek(0);
\* json.dump(data, f); f.truncate()
LogWrite(t) ==
    /\ pc[t] = "logw"
    /\ LET rec  == Stamp(LogInput(t), clock)
           recs == Append(snap[t], rec)
       IN  /\ txLog' = [i \in 1..Len(recs) |-> JsonDump(recs[i])]
           /\ logged' = Append(logged, rec)
    /\ snap' = [snap EXCEPT ![t] = <<>>]
    /\ pc' = [pc EXCEPT ![t] = "idle"]
    /\ UNCHANGED <<cfg, cache, history, clock, cleaned, calls, op, api, result, polls,
                   stmts, locks, file, conns, db, closed, closeDone>>

\* cleanup_old_transactions: with open(path, 'r') as f: data = json.load(f)
CleanupRead(t) ==
    /\ pc[t] = "idle"
    /\ snap' = [snap EXCEPT ![t] = Loaded(txLog)]
    /\ pc' = [pc EXCEPT ![t] = "cleanw"]
    /\ UNCHANGED <<cfg, cache, logged, history, clock, cleaned, calls, op, api, result,
                   polls, stmts, locks, file, conns, data, closed, closeDone>>

\* cleanup_old_transactions: filter; with open(path, 'w') as f: json.dump
CleanupWrite(t) ==
    /\ pc[t] = "cleanw"
    /\ LET kept == KeptRecords(snap[t], clock - LongAge)
       IN  txLog' = [i \in 1..Len(kept) |-> JsonDump(kept[i])]
    /\ snap' = [snap EXCEPT ![t] = <<>>]
    /\ pc' = [pc EXCEPT ![t] = "idle"]
    /\ UNCHANGED <<cfg, cache, logged, history, clock, cleaned, calls, op, api, result,
                   polls, stmts, locks, file, conns, db, closed, closeDone>>

NextLogShared ==
    \E t \in Loggers :
        \/ LogRead(t)
        \/ LogWrite(t)
        \/ CleanupRead(t)
        \/ CleanupWrite(t)

SpecLogShared == InitFor("LG") /\ [][NextLogShared]_vars

\* ------------------------------- the transaction log, shared and observed
\* As above, with the file as its readers find it while cleanup_old_transactions
\* rewrites it: open(path, 'w') empties the file, json.dump fills it later.
\* An append is taken to reach the file with one write call.

\* a file whose bytes are no JSON document: empty, or a document followed by
\* what an earlier, longer document left behind
TornFile ==
    <<[operation |-> "torn", params |-> <<>>, result |-> 0, timestamp |-> 0]>>

\* json.load(f) returns
Parses(f) == f # TornFile

\* json.dump(data, f) of the records recs
Dumped(recs) == [i \in 1..Len(recs) |-> JsonDump(recs[i])]

\* except Exception as e: logger.error(...)
LogFailed     == [kind |-> "log_failed", val |-> 0]
CleanupFailed == [kind |-> "cleanup_failed", val |-> 0]

\* _log_transaction: with open(path, 'r+') as f: data = json.load(f); when
\* json.load raises, the record is given up
LogLoad(t) ==
    /\ pc[t] = "idle"
    /\ Len(logged) + Cardinality({u \in Loggers : pc[u] = "logw"}) < MaxRecords
    /\ IF Parses(txLog)
       THEN /\ snap' = [snap EXCEPT ![t] = Loaded(txLog)]
            /\ pc' = [pc EXCEPT ![t] = "logw"]
            /\ result' = [result EXCEPT ![t] = NoRes]
       ELSE /\ result' = [result EXCEPT ![t] = LogFailed]
            /\ UNCHANGED <<snap, pc>>
    /\ UNCHANGED <<cfg, cache, logged, history, clock, cleaned, calls, op, api,
                   polls, stmts, locks, file, conns, data, closed, closeDone>>

\* cleanup_old_transactions: with open(path, 'r') as f: data = json.load(f);
\* when json.load raises, return 0
CleanupLoad(t) ==
    /\ pc[t] = "idle"
    /\ IF Parses(txLog)
       THEN /\ snap' = [snap EXCEPT ![t] = Loaded(txLog)]
            /\ pc' = [pc EXCEPT ![t] = "cleanw"]
            /\ result' = [result EXCEPT ![t] = NoRes]
       ELSE /\ result' = [result EXCEPT ![t] = CleanupFailed]
            /\ UNCHANGED <<snap, pc>>
    /\ UNCHANGED <<cfg, cache, logged, history, clock, cleaned, calls, op, api,
                   polls, stmts, locks, file, conns, data, closed, closeDone>>

\* cleanup_old_transactions: open(path, 'w') leaves the file empty
CleanupTruncate(t) ==
    /\ pc[t] = "cleanw"
    /\ txLog' = TornFile
    /\ pc' = [pc EXCEPT ![t] = "cleand"]
    /\ UNCHANGED <<env, calls, op, api, result, polls, stmts, locks, file,
                   conns, db>>

\* What the file holds after kept was written from its start without a
\* truncate: kept alone when the file was no longer than that, kept and the
\* rest of the file when it was longer. Files of as many records are longer
\* or not by the digits of their timestamps.
AfterDump(f, kept) ==
    IF ~Parses(f) \/ Len(f) < Len(kept) THEN {Dumped(kept)}
    ELSE IF Len(f) > Len(kept) THEN {TornFile}
    ELSE {Dumped(kept), TornFile}

\* cleanup_old_transactions: json.dump(data, f) and the end of the with block
CleanupDump(t) ==
    /\ pc[t] = "cleand"
    /\ txLog' \in AfterDump(txLog, KeptRecords(snap[t], clock - LongAge))
    /\ snap' = [snap EXCEPT ![t] = <<>>]
    /\ pc' = [pc EXCEPT ![t] = "idle"]
    /\ UNCHANGED <<cfg, cache, logged, history, clock, cleaned, calls, op, api,
                   result, polls, stmts, locks, file, conns, db, closed, closeDone>>

\* get_transaction_history(limit): [] when json.load raises
ReadHistory ==
    /\ \E limit \in 0..1 :
        history' = [called |-> TRUE, limit |-> limit,
                    len |-> IF Parses(txLog) THEN Len(txLog) ELSE 0,
                    recs |-> IF Parses(txLog)
                             THEN HistoryWindow(Loaded(txLog), limit)
                             ELSE <<>>]
    /\ UNCHANGED <<cfg, cache, logged, clock, cleaned, snap, calls, pc, op, api,
                   result, polls, stmts, locks, file, conns, data, closed, closeDone>>

NextLogObserved ==
    \/ \E t \in Loggers :
        \/ LogLoad(t)
        \/ LogWrite(t)
        \/ CleanupLoad(t)
        \/ CleanupTruncate(t)
        \/ CleanupDump(t)
    \/ ReadHistory

SpecLogObserved == InitFor("LG") /\ [][NextLogObserved]_vars

\* ---------------------------------------------------------------- properties
\* A thread is between its successful _get_file_lock and its
\* _release_file_lock.
InCS(t) == UsesFileLock(op[t]) /\ pc[t] \in {"conn", "body", "unlock"}

Writer(t) == op[t].name \in {"update", "many", "txn"}
HoldsConnection(t) == held[t] # 0
CheckedOut == {t \in Threads : held[t] > 0}
InPool(c) == \E i \in 1..Len(pool) : pool[i] = c
LockFailures == {"LockTimeout", "PoolExhausted"}

\* The step is t's run of execute_update_with_optimistic_lock's statements;
\* op'[t] holds the arguments of the call.
UpdateStep(t) == IsMA /\ pc[t] = "body" /\ op[t].name = "update" /\ pc'[t] # "body"

\* The step is t's run of the statements of a transaction, of either manager.
TransactionStep(t) ==
    /\ pc[t] \in {"body", "ts_body"}
    /\ op[t].name = "txn"
    /\ pc'[t] # pc[t]

\* C1: with one thread per process, at most one process holds the advisory
\* lock on the lock file at any moment; a process that obtained the lock and
\* has not released it still holds it, so a second process obtains it only
\* after the first released it; and _get_file_lock gives up only once its
\* timeout has elapsed.
C1_OneProcessHoldsLock ==
    cfg = "XP" =>
        /\ Cardinality({p \in Procs : flocked[p]}) <= 1
        /\ \A t \in Threads : InCS(t) => flocked[P(t)]
        /\ \A t, u \in Threads : (InCS(t) /\ InCS(u)) => t = u
        /\ \A t \in Threads :
             (pc[t] = "exit" /\ result[t].kind = "LockTimeout") => polls[t] >= MaxPolls

\* one process is inside its guarded operation while the other's wait for the
\* lock has timed out
C1_Witness ==
    /\ cfg = "XP"
    /\ InCS("t1") /\ flocked["p1"]
    /\ pc["t2"] = "exit" /\ result["t2"].kind = "LockTimeout"

\* C2: for every interleaving of the threads of one manager and of other
\* processes, no two operations are at once between their successful
\* _get_file_lock and their _release_file_lock, and the lock an operation
\* acquired stays held until that operation releases it.
C2_LockedOperationsOrdered ==
    /\ \A t, u \in Threads : (InCS(t) /\ InCS(u)) => t = u
    /\ \A t \in Threads : InCS(t) => flocked[P(t)]

\* C3: within one process, the intervals in which writers hold the connection
\* for their statements do not overlap, each lying inside the writer's hold of
\* the write lock.
C3_WritersDoNotOverlap ==
    /\ \A t, u \in Threads :
         (/\ P(t) = P(u)
          /\ Writer(t) /\ HoldsConnection(t)
          /\ Writer(u) /\ HoldsConnection(u)) => t = u
    /\ \A t \in Threads : (Writer(t) /\ HoldsConnection(t)) => wlock[P(t)] = t

\* a writer holds its connection while another writer of the same manager
\* waits for the write lock
C3_Witness ==
    \E t, u \in Threads :
        /\ t # u /\ P(t) = P(u)
        /\ Writer(t) /\ HoldsConnection(t)
        /\ pc[u] \in {"write", "ts_write"}

\* C4: the number of connections checked out of the pool is at most
\* max_connections in every reachable state.
C4_CheckedOutBounded == IsTS => Cardinality(CheckedOut) <= MaxConnections

\* every connection is checked out and one more caller is at the pool
C4_Witness ==
    /\ IsTS
    /\ Cardinality(CheckedOut) = MaxConnections
    /\ \E t \in Threads : pc[t] = "get"

C6_VersionedUpdateOnce ==
    [][\A t \in Threads :
        LET c == op'[t]
            r == WrittenId(c.query, c.params)
        IN  (UpdateStep(t) /\ c.vcol # None /\ RowExists(db, r)) =>
              IF c.vval = db[r].ver
              THEN result'[t] = Res("affected", 1) /\ db'[r].ver = db[r].ver + 1
              ELSE result'[t].kind = "VersionConflict"]_vars

\* C7: a call with a version column and an expected value, on a row (id =
\* params[0]) whose stored version differs from it, fails with a version
\* conflict; the caller's statement is not executed and the database and the
\* log are unchanged.
C7_ConflictPreventsUpdate ==
    [][\A t \in Threads :
        LET c == op'[t]
        IN  (/\ UpdateStep(t)
             /\ c.vcol # None
             /\ VersionLookup(db, c.params[1]) \notin {0, c.vval}) =>
              /\ result'[t].kind = "VersionConflict"
              /\ db' = db
              /\ txLog' = txLog]_vars

\* C8: every update_with_version_check call that returns True leaves the
\* row's version exactly one greater than it was just before its update
\* statement ran.
C8_SuccessIncrementsByOne ==
    [][\A t \in Threads :
        (/\ UpdateStep(t)
         /\ api[t].name = "vcheck"
         /\ WrapperResult(result'[t]) = Res("bool", 1)) =>
            db'[api[t].rid].ver = db[api[t].rid].ver + 1]_vars

C10_FailureBeforeStatements ==
    [][\A t \in Threads :
        /\ result'[t].kind \in LockFailures => stmts'[t] = 0
        /\ (pc'[t] # pc[t] /\ (db' # db \/ txLog' # txLog)) =>
              (stmts'[t] > stmts[t] /\ result'[t].kind \notin LockFailures)]_vars

\* an operation has failed on the lock or on the pool and is about to raise,
\* in a run where another operation changed the database
C10_Witness ==
    /\ \E t \in Threads : result[t].kind \in LockFailures /\ pc[t] \in {"exit", "ts_exit"}
    /\ \E i \in Ids : db[i] # [ver |-> i, data |-> 1]

\* t is inside _get_file_lock
Waiting(t) == pc[t] \in {"flock", "poll"}

\* C11: a waiter polls at most as often as fits in the timeout; when the
\* timeout is over its next step gives up with the lock-timeout error
\* without touching the lock, the call then ends without another attempt,
\* and a waiter that keeps being scheduled always leaves _get_file_lock, even
\* if the holder never releases the lock.
C11_LockWaitEnds ==
    /\ [](\A t \in Threads : polls[t] <= MaxPolls)
    /\ [][\A t \in Threads :
            (pc[t] = "poll" /\ TimedOut(t) /\ pc'[t] # pc[t]) =>
                /\ pc'[t] = "exit"
                /\ result'[t] = Res("LockTimeout", 0)
                /\ flocked' = flocked]_vars
    /\ [][\A t \in Threads :
            (pc[t] = "exit" /\ result[t].kind = "LockTimeout" /\ pc'[t] # pc[t]) =>
                pc'[t] = "idle"]_vars
    /\ (Waiting("t2") ~> ~Waiting("t2"))

\* the other process held the lock during all the polls of t2, which gave up
C11_Witness ==
    /\ cfg = "XP"
    /\ flocked["p1"]
    /\ pc["t2"] = "exit" /\ polls["t2"] = MaxPolls
    /\ result["t2"] = Res("LockTimeout", 0)

\* no thread of process p is inside an operation
Quiet(p) == \A t \in Threads : P(t) = p => pc[t] = "idle"

\* C12: once the operations of a manager have returned or raised, whichever
\* way they ended, the advisory lock is not held, _write_lock and _local_lock
\* are free and no lock-file handle is left open.
C12_NothingLeftHeld ==
    \A p \in Procs :
        (IsMA /\ Quiet(p)) =>
            /\ ~flocked[p]
            /\ wlock[p] = None /\ llock[p] = None
            /\ lockFile[p] # "open"

\* t is in _get_file_lock, or between it and _release_file_lock
AtFileLock(t) == pc[t] \in {"open", "flock", "poll", "unlock"}

Reading(t) ==
    /\ op[t].name = "query" /\ op[t].level # "serializable"
    /\ HoldsConnection(t)
    /\ pc[t] \in {"body", "ts_body"}

\* t has called a read that does not ask for the file lock and stands before
\* the first lock of the call
StartsRead(t) ==
    /\ op[t].name = "query" /\ op[t].level # "serializable"
    /\ pc[t] \in {"local", "ts_read"}

\* C14: while one thread executes a read, another thread of the same process
\* that starts a read on the same manager can go on at once: the lock its
\* call takes first is not held by the reading thread.
C14_ReadsDoNotBlockReads ==
    \A t \in Threads : \A u \in Threads \ {t} :
        (P(t) = P(u) /\ Reading(t) /\ StartsRead(u)) =>
            llock[P(u)] \in {None, u}

\* t stands in one of the waits of the coordination layer: the in-process
\* write lock, the in-process local or reentrant lock, the pool, the file lock
InWait(t) ==
    pc[t] \in {"write", "ts_write", "local", "ts_read", "g_lock", "get", "flock", "poll"}

C16_ExhaustedAcquireFails ==
    /\ [][\A t \in Threads :
            (pc[t] = "get" /\ pool = <<>> /\ pc'[t] # "get") =>
                /\ pc'[t] = "ts_exit"
                /\ result'[t] = Res("PoolExhausted", 0)
                /\ pool' = pool /\ held' = held]_vars
    /\ [](IsTS => \A t \in Threads :
            /\ held[t] \in 0..MaxConnections
            /\ (pc[t] = "ts_exit" /\ result[t].kind = "PoolExhausted") => held[t] = 0
            /\ \A u \in Threads \ {t} : held[t] # 0 => held[u] # held[t])

\* every connection is checked out and a further acquire has just failed
C16_Witness ==
    /\ IsTS
    /\ Cardinality(CheckedOut) = MaxConnections
    /\ \E t \in Threads :
        /\ pc[t] = "ts_exit" /\ result[t] = Res("PoolExhausted", 0)
        /\ held[t] = 0

\* C17: the constructor of a ThreadSafeDatabaseManager gets the connection
\* it asks for, does not end before the manager is built, and hands the
\* manager over with max_connections idle connections and none checked out.
C17_ConstructionCompletes ==
    /\ cfg = "CT" =>
            /\ pc["t1"] # "idle"
            /\ result["t1"].kind # "PoolExhausted"
    /\ result["t1"].kind = "constructed" =>
            /\ pool = [c \in Conns |-> c]
            /\ CheckedOut = {}

\* C18: every idle connection of the pool is outside a transaction, and a
\* caller that checks a connection out gets it outside a transaction, so
\* with nothing of an earlier caller's uncommitted changes.
C18_PooledConnectionsClean ==
    /\ [](\A i \in 1..Len(pool) : ~txn[pool[i]].open)
    /\ [][\A t \in Threads :
            (pc[t] = "get" /\ pc'[t] = "ts_body" /\ held'[t] \in Conns) =>
                ~txn'[held'[t]].open]_vars

\* the caller's block ran a statement without committing it, and its
\* connection is back in the pool
C18_Witness ==
    /\ IsTS
    /\ pc["t1"] = "ts_exit" /\ op["t1"].name = "conn"
    /\ result["t1"].kind = "done" /\ stmts["t1"] = 1
    /\ pool # <<>>

\* t leaves the body of a manager call
BodyStep(t) == IsMA /\ pc[t] = "body" /\ pc'[t] # "body"

\* the call's result and the committed rows are those of its statements
Outcome(t) ==
    IF op[t].name = "query"
    THEN /\ db' = db
         /\ \E i \in QueryIds : result'[t] = Res("rows", VersionLookup(db, i))
    ELSE IF op[t].name = "update"
    THEN \E c \in UpdateArgs(t) :
            /\ db' = OptimisticUpdate(db, c).db
            /\ result'[t] = Res(OptimisticUpdate(db, c).kind, OptimisticUpdate(db, c).n)
    ELSE \E ops \in TxnCalls :
            /\ db' = Transaction(db, ops).db
            /\ result'[t] = Res("bool", IF Transaction(db, ops).ok THEN 1 ELSE 0)

\* C19: when the transaction log cannot be appended to, a manager call still
\* ends with the result of its statements (rows, affected count, boolean),
\* its commit stands, nothing is added to the log and no error of the
\* logging reaches the caller.
C19_LogFailureSwallowed ==
    [][\A t \in Threads :
        (~LogUsable /\ BodyStep(t)) =>
            /\ Outcome(t)
            /\ result'[t] # LogError
            /\ txLog' = txLog]_vars

\* with the log unusable an update has committed its change and returned
\* its affected-row count
C19_Witness ==
    /\ ~LogUsable
    /\ pc["t1"] = "unlock" /\ op["t1"].name = "update"
    /\ result["t1"] = Res("affected", 1)
    /\ db # [i \in Ids |-> [ver |-> i, data |-> 1]]
    /\ txLog = <<>>

\* what a record is after json.dump and json.load
JsonImage(rec) == [rec EXCEPT !.params = PyList(rec.params.items)]

\* the last history was asked for as many records as were appended, with
\* nothing appended since
RoundTrip ==
    /\ history.called
    /\ history.len = Len(logged)
    /\ history.limit = Len(logged)

\* C20 (as stated): history with limit = N after N appends returns exactly
\* the N records that were appended, in append order.
C20_HistoryRoundTrip == RoundTrip => history.recs = logged

\* C20 (amended): history with limit = N after N appends returns the N
\* records in append order, each as json.load gives it back (params as a
\* list); history with limit > 0 returns the last min(limit, length) records
\* of the log in append order; history changes neither the log nor what was
\* appended.
C20_HistoryReturnsLogWindow ==
    /\ [](RoundTrip =>
            history.recs = [i \in 1..Len(logged) |-> JsonImage(logged[i])])
    /\ []((history.called /\ history.limit > 0 /\ history.len = Len(logged)) =>
            LET n == IF history.limit < Len(logged) THEN history.limit ELSE Len(logged)
            IN  /\ Len(history.recs) = n
                /\ \A i \in 1..n :
                    history.recs[i] = JsonImage(logged[Len(logged) - n + i]))
    /\ [][(history'.called /\ history' # history) =>
            (txLog' = txLog /\ logged' = logged)]_vars

\* MaxRecords records, not all alike, were appended and read back with
\* limit = MaxRecords
C20_Witness ==
    /\ RoundTrip
    /\ Len(logged) = MaxRecords
    /\ logged[1] # logged[2]
    /\ logged[1].params = PyTuple(<<1>>)

\* C21: cleanup_old_transactions(max_age) leaves in the log exactly the
\* records newer than now minus max_age, unchanged and in their order, and
\* returns how many it removed; with max_age = 0 it leaves the log empty and
\* returns the log's previous length.
C21_CleanupFiltersByAge ==
    [][(cleaned'.called /\ cleaned' # cleaned) =>
        LET Keep(r) == r.timestamp > clock - cleaned'.age
        IN  /\ txLog' = SelectSeq(txLog, Keep)
            /\ cleaned'.count = Len(txLog) - Len(txLog')
            /\ cleaned'.age = 0 =>
                    (txLog' = <<>> /\ cleaned'.count = Len(txLog))]_vars

\* a cleanup has removed a record and kept a newer one
C21_Witness ==
    /\ cleaned.called /\ cleaned.age > 0
    /\ cleaned.count > 0
    /\ txLog # <<>>
    /\ history = NoHistory

\* C22: every record a _log_transaction has appended is in the log file
\* for good, no cleanup having removed it for its age.
C22_NoRecordLost ==
    \A i \in 1..Len(logged) :
        \E j \in 1..Len(txLog) : txLog[j] = JsonDump(logged[i])

\* ---------------------------------------------- the ConsistencyManager cache
\* thread t returns from a read_with_cache_validation that found its entry
CacheHit(t) ==
    /\ api'[t].name = "hit"
    /\ api'[t] # api[t] \/ result'[t] # result[t]

\* thread t enters the query of a read_with_cache_validation
CacheMiss(t) == pc[t] = "idle" /\ api'[t].name = "read"

\* thread t leaves a read_with_cache_validation whose query has returned
CacheFill(t) == pc[t] = "store" /\ pc'[t] # "store"

\* C23: a read_with_cache_validation with a key under which an entry younger
\* than the freshness window is held returns the cached rows and runs no
\* query, opens no connection, takes no lock of the manager and appends no log
\* record; without a key, or without such an entry, it runs the query at the
\* read_committed level, and, if a key was given, stores what the query
\* returned under the key with a fresh timestamp and returns it.
C23_CachedOrQueried ==
    [][\A t \in Threads :
        /\ CacheHit(t) =>
              /\ cache[api'[t].key].present /\ cache[api'[t].key].fresh
              /\ result'[t] = Res("rows", cache[api'[t].key].data)
              /\ UNCHANGED <<pc, op, stmts, locks, file, conns, data, cache>>
        /\ CacheMiss(t) =>
              /\ api'[t].key # NoKey =>
                    ~(cache[api'[t].key].present /\ cache[api'[t].key].fresh)
              /\ op'[t].name = "query" /\ op'[t].level = "read_committed"
              /\ pc'[t] = "local"
        /\ CacheFill(t) =>
              /\ api[t].key # NoKey /\ result[t].kind = "rows"
              /\ cache'[api[t].key].present /\ cache'[api[t].key].fresh
              /\ cache'[api[t].key].data = result[t].val
              /\ \A k \in CacheKeys \ {api[t].key} : cache'[k] = cache[k]
              /\ result'[t] = result[t]
        /\ (api[t].name = "read" /\ api[t].key = NoKey /\ pc'[t] # pc[t]) =>
              cache' = cache]_vars

\* a read served from the cache after the entry was stored by an earlier read
C23_Witness ==
    \E t \in Threads :
        /\ api[t].name = "hit" /\ result[t].kind = "rows"
        /\ cache[api[t].key].present
        /\ calls > 0 /\ txLog # <<>>

\* thread t returns True from update_with_version_check
VersionCheckReturnsTrue(t) ==
    /\ api[t].name = "vcheck" /\ pc[t] = "exit" /\ pc'[t] = "idle"
    /\ result'[t] = Res("bool", 1)

\* C24: when an update_with_version_check on table T and record R returns
\* True it has removed every cache entry whose key contains the name T or the
\* decimal text of R, and has left every other entry as it was.
C24_RelatedEntriesCleared ==
    [][\A t \in Threads : VersionCheckReturnsTrue(t) =>
          \A k \in CacheKeys :
              IF Contains(TableT, k) \/ Contains(Str(api[t].rid), k)
              THEN ~cache'[k].present
              ELSE cache'[k] = cache[k]]_vars

\* a read stored an entry under a key, an update_with_version_check returned
\* True, and the entry is gone
C24_Witness ==
    \E t, u \in Threads :
        /\ result[t] = Res("bool", 1) /\ pc[t] = "idle"
        /\ api[u].name = "stored"
        /\ ~cache[api[u].key].present

\* C26: once an update_with_version_check on table T and record R has
\* returned, no read_with_cache_validation with a key containing T or R is
\* served rows that were read from the database before that update committed.
C26_NoStaleRowsServed ==
    \A t \in Threads : api[t].name = "hit" => api[t].old # "stale"

\* the kinds of failure a manager call ends with
FailureKinds == {"LockTimeout", "VersionConflict", "StatementError", "ValueError",
                 "PoolExhausted", "ThreadError"}

\* thread t returns from update_with_version_check
VersionCheckReturns(t) ==
    api[t].name = "vcheck" /\ pc[t] = "exit" /\ pc'[t] = "idle"

\* how the manager call inside update_with_version_check that thread t is
\* leaving has failed, if it has: the kind it raised, or the record not found
WrapperFailure(t) ==
    IF result[t].kind \in FailureKinds THEN result[t].kind
    ELSE IF op[t].name = "query" /\ WrapperReadFailed(result[t]) THEN "RecordMissing"
    ELSE None

\* C25: a failure reaches the caller as an error of its kind and never as a
\* default result: what update_with_version_check returns after a version
\* conflict, a lock timeout, a missing record or a failing statement tells
\* which of them happened.
C25_FailuresKeepTheirKind ==
    [][\A t \in Threads :
          (VersionCheckReturns(t) /\ WrapperFailure(t) # None) =>
              result'[t].kind = WrapperFailure(t)]_vars

\* thread t runs the update of its update_with_version_check
WrapperUpdates(t) ==
    /\ api[t].name = "vcheck" /\ op[t].name = "update"
    /\ pc[t] = "body" /\ pc'[t] # "body"

\* C27: the version lookup inside the update of update_with_version_check is
\* keyed by record_id, the row whose version the wrapper has read, whatever
\* params the caller passed; so when that row's version is no longer the one
\* that was read, the update is rejected as a version conflict.
C27_LookupTargetsRecord ==
    [][\A t \in Threads : WrapperUpdates(t) =>
          /\ op'[t].params[1] = api[t].rid
          /\ VersionLookup(db, api[t].rid) # api[t].cur =>
                (result'[t].kind = "VersionConflict" /\ db' = db)]_vars

\* t holds the in-process lock of its operation
HoldsInProcess(t) ==
    IF op[t].name = "query" THEN llock[P(t)] = t ELSE wlock[P(t)] = t

\* the lock file of t's process is open and locked
FileLocked(t) == lockFile[P(t)] = "open" /\ flocked[P(t)]

\* t is in an operation that takes the file lock
Guarded(t) == IsMA /\ UsesFileLock(op[t])

\* C28: in every operation that takes the file lock, the file lock is taken
\* under the in-process lock and before the connection is opened, the
\* statements run while both locks are held and the connection is closed
\* before they return, the file lock is released after the connection is
\* closed and before the in-process lock is.
C28_LocksNestAroundStatements ==
    [][\A t \in Threads : Guarded(t) =>
          /\ (pc[t] \in {"flock", "poll"} /\ pc'[t] = "conn") =>
                (HoldsInProcess(t) /\ held[t] = 0 /\ FileLocked(t)')
          /\ (pc[t] = "conn" /\ pc'[t] = "body") =>
                (HoldsInProcess(t) /\ FileLocked(t) /\ held'[t] # 0)
          /\ BodyStep(t) =>
                (HoldsInProcess(t) /\ FileLocked(t) /\ held'[t] = 0 /\ pc'[t] = "unlock")
          /\ (pc[t] = "unlock" /\ pc'[t] # "unlock") =>
                (HoldsInProcess(t) /\ held[t] = 0 /\ ~flocked'[P(t)] /\ pc'[t] = "exit")
          /\ (pc[t] = "exit" /\ pc'[t] # "exit") =>
                (HoldsInProcess(t) /\ held[t] = 0 /\ llock'[P(t)] # t /\ wlock'[P(t)] # t)]_vars

\* C29: every append to the transaction log is made by a thread inside its
\* operation, holding the in-process lock of the operation and, for a
\* serializable query, an update or a transaction, the file lock as well,
\* and keeping them over the append.
C29_AppendsUnderLocks ==
    [][(IsMA /\ txLog' # txLog) =>
          \E t \in Threads :
              /\ BodyStep(t)
              /\ HoldsInProcess(t) /\ UNCHANGED locks
              /\ UsesFileLock(op[t]) => (FileLocked(t) /\ UNCHANGED file)]_vars

\* C30: every query, update or transaction of a MultiAgentDatabaseManager
\* that got its locks appends exactly one record with the agent of the
\* manager to a usable transaction log, whether its statements succeeded or
\* failed.
C30_EveryOperationLogged ==
    [][\A t \in Threads : (BodyStep(t) /\ LogUsable) =>
          /\ Len(txLog') = Len(txLog) + 1
          /\ SubSeq(txLog', 1, Len(txLog)) = txLog
          /\ txLog'[Len(txLog')].agent = P(t)]_vars

Unfinished == {t \in Threads : pc[t] # "idle"}

\* t waits for the first lock of its call
AtFirstLock(t) == pc[t] \in {"write", "ts_write", "local", "ts_read"}

\* t holds an in-process lock of its process
HoldsAnyLock(t) == llock[P(t)] = t \/ wlock[P(t)] = t

\* C32: in no reachable state are all the unfinished operations blocked:
\* one of them can always take a step; and the locks are taken in one order:
\* a thread waiting for the first lock of its call holds no lock and no
\* connection, the reentrant lock is never waited for by a thread that holds
\* a connection, and the write lock never by one that holds the reentrant lock.
C32_NoDeadlock ==
    /\ Unfinished # {} => \E t \in Unfinished : ENABLED Step(t)
    /\ \A t \in Threads :
        /\ AtFirstLock(t) => (~HoldsAnyLock(t) /\ held[t] = 0)
        /\ pc[t] = "g_lock" => held[t] = 0
        /\ pc[t] \in {"write", "ts_write"} => llock[P(t)] # t

\* a thread is blocked at a lock that another thread holds, and that thread
\* can go on
C32_Witness ==
    \E t, u \in Threads :
        /\ t # u
        /\ pc[t] \in {"write", "ts_write", "local", "g_lock", "ts_read"}
        /\ ~ENABLED Step(t)
        /\ HoldsAnyLock(u) /\ ENABLED Step(u)

\* the readers and the writers that have a connection of the pool
ReadersOut == {t \in Threads : held[t] > 0 /\ op[t].name = "query"}
WritersOut == {t \in Threads : held[t] > 0 /\ Writer(t)}

\* C33: when the callers of a ThreadSafeDatabaseManager use only
\* execute_query, execute_update, execute_many and execute_transaction, at
\* most one reader and at most one writer have a connection at any moment,
\* so at most two connections are checked out, however wide the pool is and
\* however many threads call.
C33_TwoConnectionsAtMost ==
    /\ Cardinality(ReadersOut) <= 1
    /\ Cardinality(WritersOut) <= 1
    /\ Cardinality(CheckedOut) <= 2

\* a reader and a writer have a connection each, a third caller is inside its
\* call without one, and the pool still has an idle connection
C33_Witness ==
    /\ cfg = "TW"
    /\ ReadersOut # {} /\ WritersOut # {}
    /\ pool # <<>>
    /\ \E t \in Threads : pc[t] \in {"ts_read", "ts_write", "g_lock"} /\ held[t] = 0

\* C34: an execute_update_with_optimistic_lock that is given a version column
\* and a version value executes its update statement only if the table name
\* could be extracted from the statement and the lookup by params[0] found a
\* row whose stored version is the value given.
C34_UpdateOnlyAfterMatch ==
    [][\A t \in Threads :
          (UpdateStep(t) /\ op'[t].vcol # None
              /\ result'[t].kind \in {"affected", "StatementError"}) =>
                /\ ExtractTableName(op'[t].query) # None
                /\ RowExists(db, op'[t].params[1])
                /\ VersionLookup(db, op'[t].params[1]) = op'[t].vval]_vars

\* C35: the rows read_with_cache_validation returns from the cache were
\* stored by a call with the same query and params as the current one.
C35_HitMatchesQuery ==
    \A t \in Threads :
        (api[t].name = "hit" /\ cache[api[t].key].present) =>
            cache[api[t].key].hash = QueryHash(api[t].rid)

\* The complete logs a reader may find while a rewrite runs: the file itself
\* when it is whole, else what the threads that emptied it had read (the log
\* before their rewrite) and will write (the log after it).
Rewriting == {u \in Loggers : pc[u] = "cleand"}

WholeLogs ==
    IF Parses(txLog) THEN {txLog}
    ELSE {Dumped(snap[u]) : u \in Rewriting}
         \cup {Dumped(KeptRecords(snap[u], clock - LongAge)) : u \in Rewriting}

\* C36: a get_transaction_history or a _log_transaction that runs while
\* another thread or process rewrites the log finds a complete log, the one
\* before the rewrite or the one after it: the history it returns is the
\* window of such a log, and no record is given up because the file did not
\* parse while such a log holds records.
C36_RewritesAtomicToObservers ==
    [][/\ (history' # history /\ history'.called) =>
            \E f \in WholeLogs :
                history'.recs = HistoryWindow(Loaded(f), history'.limit)
       /\ \A t \in Loggers :
            (result'[t] = LogFailed /\ result[t] # LogFailed) =>
                \A f \in WholeLogs : f = <<>>]_vars

\* ---------------------------------------------------- the pool after close
\* no call is running
AllReturned == \A t \in Threads : pc[t] = "idle"

====
